---- MODULE Spec2Model ----
(***************************************************************************)
(* DebateMate: the session store of App.tsx, the DebateDashboard and       *)
(* SpeakerRecorder components (src/unnamed/part_000) and the Gemini        *)
(* service functions (src/constants.ts), as a state machine.               *)
(*                                                                         *)
(* React state is modelled as it behaves: `sessions` is the store kept by  *)
(* App's useState, `rendered` is the value of that store in the last       *)
(* committed render.  Every handler and interval callback is a closure of  *)
(* a render: it reads the `session` prop it was created with, and          *)
(* updateSession replaces the stored session by the object it is given.    *)
(* An async handler keeps the closure of the render it was started in      *)
(* across its await.  Under Spec every store write is rendered before the  *)
(* next event; Write and Render also describe a render that lags behind.   *)
(*                                                                         *)
(* Optional values: a JavaScript string that may be undefined is the       *)
(* string Undef; any other nullable value v is None (null / undefined) or  *)
(* Some(v).  Text is a sequence of one-character strings where the code    *)
(* looks inside it (the motion), and an opaque string elsewhere.           *)
(***************************************************************************)
EXTENDS FiniteSets, Integers, Sequences, TLC

VARIABLES
    sessions,           \* App.tsx:8   useState<DebateSession[]>, the store
    activeSessionId,    \* App.tsx:25  useState<string>
    nextId,             \* the first reading of Date.now() after the latest id's
    rendered,           \* `sessions` as of the last committed render
    prepEffect,         \* the session closed over by the prep timer effect
    motionInput,        \* DebateDashboard useState (part_000:249)
    isAnalyzingMotion,  \* DebateDashboard useState (part_000:250)
    isOnline,           \* DebateDashboard useState (part_000:251)
    skipPrepTime,       \* DebateDashboard useState (part_000:252)
    isRecording,        \* SpeakerRecorder useState, per speaker (part_000:15)
    isAnalyzing,        \* SpeakerRecorder useState, per speaker (part_000:16)
    calls,              \* async handlers and recorders in flight, oldest first
    started,            \* number of calls started so far
    apiKey,             \* whether process.env.API_KEY is set in this build
    last,               \* the operation that produced this state
    aggIn,              \* input of the aggregation under SpecAgg
    aggOut,             \* its output
    updIn,              \* input of a speaker update under SpecUpdate
    updOut              \* the session it leaves in the store

vars == <<sessions, activeSessionId, nextId, rendered, prepEffect, motionInput,
          isAnalyzingMotion, isOnline, skipPrepTime, isRecording, isAnalyzing,
          calls, started, apiKey, last, aggIn, aggOut, updIn, updOut>>

uiVars == <<motionInput, isAnalyzingMotion, isOnline, skipPrepTime>>
recVars == <<isRecording, isAnalyzing>>
aggVars == <<aggIn, aggOut>>
updVars == <<updIn, updOut>>
fnVars == <<aggVars, updVars>>

-----------------------------------------------------------------------------
(* Bounds of the model *)

\* ids ever given to a session, the default one included: the default id and
\* the readings of the clock up to MaxSessions
MaxSessions == 2
\* sessions in the store at a time
MaxStored == 3
\* async calls (motion analysis, recordings, ranking) ever started
MaxCalls == 3
\* speakers 1..MaxTimed get speech timer events
MaxTimed == 1
\* speakers 1..MaxRecorded get recorder events; the other speakers stay as created
MaxRecorded == 2
\* the two durations, scaled down from the source's 440 s and 900 s
MaxSpeechTime == 2
MaxPrepTime == 2

-----------------------------------------------------------------------------
(* Values *)

None == <<>>
Some(v) == <<v>>
Undef == "undefined"

SPEECH_TIME_SECONDS == MaxSpeechTime
PREP_TIME_SECONDS == MaxPrepTime

OG == "Opening Government"
OO == "Opening Opposition"
CG == "Closing Government"
CO == "Closing Opposition"
Team == {OG, OO, CG, CO}

SpeakerIds == <<"1", "2", "3", "4", "5", "6", "7", "8">>
SpeakerRoles == <<"Prime Minister", "Leader of Opposition", "Deputy Prime Minister",
                  "Deputy Leader of Opposition", "Member of Government",
                  "Member of Opposition", "Government Whip", "Opposition Whip">>
SpeakerTeams == <<OG, OO, OG, OO, CG, CO, CG, CO>>

INITIAL_SPEAKERS ==
    [i \in 1..8 |->
        [id |-> SpeakerIds[i], role |-> SpeakerRoles[i], team |-> SpeakerTeams[i],
         name |-> "", isCompleted |-> FALSE, audioBlob |-> Undef, transcription |-> Undef,
         score |-> None, feedback |-> Undef,
         speechTimeLeft |-> SPEECH_TIME_SECONDS, isSpeechTimerRunning |-> FALSE]]

\* JSON.parse(JSON.stringify(x)): a value of the model is its own deep copy
DeepCopy(x) == x

-----------------------------------------------------------------------------
(* Text *)

Blank == " "
TitleLimit == 30

RECURSIVE TrimStart(_)
TrimStart(s) ==
    IF s # <<>> /\ Head(s) = Blank THEN TrimStart(Tail(s)) ELSE s

RECURSIVE TrimEnd(_)
TrimEnd(s) ==
    IF s # <<>> /\ s[Len(s)] = Blank THEN TrimEnd(SubSeq(s, 1, Len(s) - 1)) ELSE s

\* a trim that removes nothing
TrimNothing(s) == s

Trim(s) == TrimEnd(TrimStart(s))

Ellipsis == <<".", ".", ".">>

TitleOf(motion) ==
    IF Len(motion) > TitleLimit
    THEN SubSeq(motion, 1, TitleLimit) \o Ellipsis
    ELSE motion

NewDebateTitle(n) == <<"New Debate ", ToString(n)>>

MotionEmpty == <<>>
MotionBlank == <<Blank, Blank>>
MotionShort == <<"T", "H", "W">>
MotionLong == [i \in 1..(TitleLimit + 1) |-> "x"]
Motions == {MotionEmpty, MotionBlank, MotionShort}

-----------------------------------------------------------------------------
(* The Gemini service (src/constants.ts:133-363).  A response of the model  *)
(* API is what the service function can observe of it: whether the request  *)
(* went through, whether its text parses as JSON, and the parsed fields.    *)

EmptyJson ==
    [detectedLanguage |-> Undef, specificCriteria |-> None, backgroundInfo |-> Undef,
     transcription |-> Undef, score |-> None, feedback |-> Undef,
     rankings |-> None, overallAdjudication |-> Undef]

Response(netOK, parses, json) == [netOK |-> netOK, parses |-> parses, json |-> json]

NetworkError == Response(FALSE, FALSE, EmptyJson)
Unparseable == Response(TRUE, FALSE, EmptyJson)
\* response.text is empty: JSON.parse('{}')
EmptyResponse == Response(TRUE, TRUE, EmptyJson)

Threw == [threw |-> TRUE, value |-> None]
Returned(v) == [threw |-> FALSE, value |-> Some(v)]

\* a || b on strings: the empty and the undefined string are falsy
OrString(a, b) == IF a = Undef \/ a = "" THEN b ELSE a

FallbackContext ==
    [detectedLanguage |-> "English (Fallback)",
     specificCriteria |-> <<"Analyze based on general logic due to search error.">>,
     backgroundInfo |-> "Could not retrieve online context."]

analyzeMotionContext(apiKeySet, r) ==
    IF ~apiKeySet THEN Threw
    ELSE IF ~r.netOK \/ ~r.parses THEN Returned(FallbackContext)
    ELSE Returned(
        [detectedLanguage |-> OrString(r.json.detectedLanguage, "Unknown"),
         specificCriteria |-> IF r.json.specificCriteria = None THEN <<>>
                              ELSE r.json.specificCriteria[1],
         backgroundInfo |-> OrString(r.json.backgroundInfo, "No context found.")])

\* an evaluation that answers a failed request with the defaults
analyzeSpeakerAudioDefaults(apiKeySet, r) ==
    Returned(
        [transcription |-> OrString(r.json.transcription, "Transcription failed."),
         score |-> IF r.json.score = None THEN 0 ELSE r.json.score[1],
         feedback |-> OrString(r.json.feedback, "No feedback generated.")])

analyzeSpeakerAudio(apiKeySet, r) ==
    IF ~apiKeySet THEN Threw
    ELSE IF ~r.netOK \/ ~r.parses THEN Threw
    ELSE Returned(
        [transcription |-> OrString(r.json.transcription, "Transcription failed."),
         score |-> IF r.json.score = None THEN 0 ELSE r.json.score[1],
         feedback |-> OrString(r.json.feedback, "No feedback generated.")])

\* `return result as RankingResult`: the parsed object, unchecked
generateFinalRanking(apiKeySet, r) ==
    IF ~apiKeySet THEN Threw
    ELSE IF ~r.netOK \/ ~r.parses THEN Threw
    ELSE Returned([rankings |-> r.json.rankings,
                   overallAdjudication |-> r.json.overallAdjudication])

-----------------------------------------------------------------------------
(* The ranking aggregation of handleFinishDebate (part_000:327-338) *)

\* a speaker without a score counted as a speaker with the score 1
ScoreOrOne(s) == IF s.score = None THEN 1 ELSE s.score[1]

\* s.score || 0
ScoreOrZero(s) == IF s.score = None THEN 0 ELSE s.score[1]

RECURSIVE SumScores(_, _, _)
\* teamSpeakers.reduce((acc, s) => acc + (s.score || 0), 0) over
\* session.speakers.filter(s => s.team === team), from position i on
SumScores(speakers, team, i) ==
    IF i > Len(speakers) THEN 0
    ELSE (IF speakers[i].team = team THEN ScoreOrZero(speakers[i]) ELSE 0)
         + SumScores(speakers, team, i + 1)

TeamTotal(speakers, team) == SumScores(speakers, team, 1)

\* the ranks renumbered by position in the list
AggregateRenumbered(rankings, speakers) ==
    [i \in 1..Len(rankings) |->
        [team |-> rankings[i].team,
         rank |-> i,
         totalScore |-> TeamTotal(speakers, rankings[i].team),
         reasoning |-> rankings[i].reasoning]]

Aggregate(rankings, speakers) ==
    [i \in 1..Len(rankings) |->
        [team |-> rankings[i].team,
         rank |-> rankings[i].rank,
         totalScore |-> TeamTotal(speakers, rankings[i].team),
         reasoning |-> rankings[i].reasoning]]

RECURSIVE SortByRank(_)
\* Array.prototype.sort((a, b) => a.rank - b.rank): stable, ascending
SortByRank(list) ==
    IF Len(list) <= 1 THEN list
    ELSE LET front == SortByRank(SubSeq(list, 1, Len(list) - 1))
             x == list[Len(list)]
             keep == Cardinality({k \in 1..Len(front) : front[k].rank <= x.rank})
         IN SubSeq(front, 1, keep) \o <<x>> \o SubSeq(front, keep + 1, Len(front))

-----------------------------------------------------------------------------
(* The session store (src/App.tsx) *)

Null == "null"

SessionId(n) == IF n = 1 THEN "default-1" ELSE "session-" \o ToString(n)

\* a session created with its motion already accepted
NewSessionInPrep(id, n) ==
    [id |-> id, title |-> NewDebateTitle(n), topic |-> <<>>, motionContext |-> None,
     isPrepTime |-> TRUE, prepTimeLeft |-> PREP_TIME_SECONDS, phase |-> "prep",
     speakers |-> DeepCopy(INITIAL_SPEAKERS), isAdjudicating |-> FALSE,
     finalRankings |-> None, overallAdjudication |-> Null]

\* the object literal of App.tsx:9-23 and App.tsx:30-43
NewSession(id, n) ==
    [id |-> id, title |-> NewDebateTitle(n), topic |-> <<>>, motionContext |-> None,
     isPrepTime |-> TRUE, prepTimeLeft |-> PREP_TIME_SECONDS, phase |-> "setup",
     speakers |-> DeepCopy(INITIAL_SPEAKERS), isAdjudicating |-> FALSE,
     finalRankings |-> None, overallAdjudication |-> Null]

IdsOf(ss) == {ss[i].id : i \in DOMAIN ss}

\* sessions.find(s => s.id === id): the first session with that id
Find(ss, id) ==
    ss[CHOOSE i \in DOMAIN ss :
          ss[i].id = id /\ \A j \in 1..(i - 1) : ss[j].id # id]

\* a store update that adds the session when no stored session has its id
updateSessionOrAdd(prev, updated) ==
    IF updated.id \in IdsOf(prev)
    THEN [i \in DOMAIN prev |-> IF prev[i].id = updated.id THEN updated ELSE prev[i]]
    ELSE Append(prev, updated)

\* prev.map(s => s.id === updated.id ? updated : s)
updateSession(prev, updated) ==
    [i \in DOMAIN prev |-> IF prev[i].id = updated.id THEN updated ELSE prev[i]]

RECURSIVE Without(_, _)
\* sessions.filter(s => s.id !== id)
Without(ss, id) ==
    IF ss = <<>> THEN <<>>
    ELSE IF Head(ss).id = id THEN Without(Tail(ss), id)
    ELSE <<Head(ss)>> \o Without(Tail(ss), id)

\* the session prop of the mounted DebateDashboard (App.tsx:67, 127-132)
ActiveRendered == Find(rendered, activeSessionId)

\* activeSession is defined: a DebateDashboard is mounted
Mounted == activeSessionId \in IdsOf(rendered)

\* the prep timer effect of no dashboard: it holds no interval
NoDashboard == NewSession(Null, 0)

-----------------------------------------------------------------------------
(* DebateDashboard and SpeakerRecorder (src/unnamed/part_000) *)

\* { ...s, ...updates }
Merge(s, updates) ==
    [f \in (DOMAIN s) \cup (DOMAIN updates) |->
        IF f \in DOMAIN updates THEN updates[f] ELSE s[f]]

\* the session handleUpdateSpeaker hands to onUpdate
handleUpdateSpeaker(session, id, updates) ==
    [session EXCEPT !.speakers =
        [i \in DOMAIN @ |-> IF @[i].id = id THEN Merge(@[i], updates) ELSE @[i]]]

\* the condition under which the prep timer effect holds an interval
PrepIntervalRuns(s) == s.phase = "prep" /\ s.prepTimeLeft > 0

\* the session the prep interval callback hands to onUpdate
PrepTickUpdate(s) == [s EXCEPT !.prepTimeLeft = s.prepTimeLeft - 1]

\* the dependency list of the prep timer effect
PrepDeps(s) == <<s.phase, s.prepTimeLeft, s.id>>

\* an interval held for as long as the flag is set
SpeechIntervalWhileFlag(sp) == sp.isSpeechTimerRunning

\* the condition under which a speaker's speech timer effect holds an interval
SpeechIntervalRuns(sp) == sp.isSpeechTimerRunning /\ sp.speechTimeLeft > 0

SpeechTickPatch(sp) == [speechTimeLeft |-> sp.speechTimeLeft - 1]

TogglePatch(sp) == [isSpeechTimerRunning |-> ~sp.isSpeechTimerRunning]

ResetPatch == [isSpeechTimerRunning |-> FALSE, speechTimeLeft |-> SPEECH_TIME_SECONDS]

\* a completion that stores no score
CompletionPatchNoScore(result) ==
    [isCompleted |-> TRUE, transcription |-> result.transcription,
     feedback |-> result.feedback, audioBlob |-> "blob"]

CompletionPatch(result) ==
    [isCompleted |-> TRUE, transcription |-> result.transcription,
     score |-> Some(result.score), feedback |-> result.feedback, audioBlob |-> "blob"]

\* session.speakers.filter(s => s.isCompleted).length
CompletedCount(s) == Cardinality({i \in DOMAIN s.speakers : s.speakers[i].isCompleted})

\* the phase entered, the preparation time left as it is
StartUpdateKeepsTime(s, motion, skip, context) ==
    [s EXCEPT !.topic = motion, !.title = TitleOf(motion),
              !.motionContext = Some(context),
              !.phase = IF skip THEN "debate" ELSE "prep"]

\* the session written when handleAnalyzeAndStart's await returns
StartUpdate(s, motion, skip, context) ==
    [s EXCEPT !.topic = motion, !.title = TitleOf(motion),
              !.motionContext = Some(context),
              !.phase = IF skip THEN "debate" ELSE "prep",
              !.prepTimeLeft = IF skip THEN 0 ELSE PREP_TIME_SECONDS]

SkipPrepUpdate(s) == [s EXCEPT !.phase = "debate", !.prepTimeLeft = 0]

\* the flag set, the phase left as it is
AdjudicatingInPlace(s) == [s EXCEPT !.isAdjudicating = TRUE]

AdjudicatingUpdate(s) == [s EXCEPT !.isAdjudicating = TRUE, !.phase = "results"]

\* the arguments of generateFinalRanking in handleFinishDebate
RankingRequest(s) ==
    [speakers |-> s.speakers, topic |-> s.topic, motionContext |-> s.motionContext]

\* the totals computed from the speakers in the store when the call returns
RankedUpdateFromStore(s, result) ==
    [s EXCEPT !.phase = "results", !.isAdjudicating = FALSE,
              !.finalRankings = Some(Aggregate(result.rankings[1],
                                               Find(sessions, s.id).speakers)),
              !.overallAdjudication = result.overallAdjudication]

RankedUpdate(s, result) ==
    [s EXCEPT !.phase = "results", !.isAdjudicating = FALSE,
              !.finalRankings = Some(Aggregate(result.rankings[1], s.speakers)),
              !.overallAdjudication = result.overallAdjudication]

\* the flag cleared, the results view kept
RevertKeepsResults(s) == [s EXCEPT !.isAdjudicating = FALSE, !.phase = "results"]

RevertUpdate(s) == [s EXCEPT !.isAdjudicating = FALSE, !.phase = "debate"]

\* the try block of handleFinishDebate throws: the service threw, or
\* result.rankings is undefined and .map is called on it
RankingThrows(res) == res.threw \/ res.value[1].rankings = None

\* the results view sorts session.finalRankings in place while rendering
ShowsRankings(s) == s.phase = "results" /\ ~s.isAdjudicating /\ s.finalRankings # None

RenderSession(s) ==
    IF ShowsRankings(s)
    THEN [s EXCEPT !.finalRankings = Some(SortByRank(s.finalRankings[1]))]
    ELSE s

RenderStore(ss, active) ==
    [i \in DOMAIN ss |-> IF ss[i].id = active THEN RenderSession(ss[i]) ELSE ss[i]]

-----------------------------------------------------------------------------
(* Inputs *)

\* positions of the speakers that get timer and recorder events
Timed == 1..MaxTimed
Recorded == 1..MaxRecorded

GoodContextJson ==
    [EmptyJson EXCEPT !.detectedLanguage = "English",
                      !.specificCriteria = Some(<<"c1", "c2", "c3">>),
                      !.backgroundInfo = "background"]

MotionResponses ==
    {NetworkError, Unparseable, Response(TRUE, TRUE, GoodContextJson)}

GoodAudioJson ==
    [EmptyJson EXCEPT !.transcription = "speech", !.score = Some(16),
                      !.feedback = "feedback"]

\* EmptyResponse: a response that parses and carries none of the three fields
AudioResponses ==
    {NetworkError, Unparseable, EmptyResponse, Response(TRUE, TRUE, GoodAudioJson)}

Ranked(team, rank) == [team |-> team, rank |-> rank, reasoning |-> "why " \o team]

\* a permutation, not in rank order
RankListValid == <<Ranked(CG, 2), Ranked(OG, 1), Ranked(CO, 4), Ranked(OO, 3)>>
\* Closing Opposition is missing
RankListMissing == <<Ranked(OG, 1), Ranked(OO, 2), Ranked(CG, 3)>>
\* rank 1 is given twice
RankListDuplicate == <<Ranked(OG, 1), Ranked(OO, 1), Ranked(CG, 3), Ranked(CO, 4)>>

RankLists == {RankListValid, RankListMissing, RankListDuplicate}

RankingJson(list, rfd) ==
    [EmptyJson EXCEPT !.rankings = Some(list), !.overallAdjudication = rfd]

RankingResponses ==
    {NetworkError, Unparseable, EmptyResponse}
    \cup {Response(TRUE, TRUE, RankingJson(l, "rfd")) : l \in RankLists}

\* the request did not produce a parsed response
ApiFailed(r) == ~apiKey \/ ~r.netOK \/ ~r.parses

-----------------------------------------------------------------------------
(* Calls in flight *)

Call(kind, stage, session, spk, motion, skip) ==
    [kind |-> kind, stage |-> stage, session |-> session, spk |-> spk,
     motion |-> motion, skip |-> skip, live |-> TRUE]

Event(op, spk) == [op |-> op, spk |-> spk]

NoFlags == [i \in 1..8 |-> FALSE]

RECURSIVE SelectCalls(_, _)
\* the calls of cs at the positions in keep, in order
SelectCalls(cs, keep) ==
    IF cs = <<>> THEN <<>>
    ELSE SelectCalls(SubSeq(cs, 1, Len(cs) - 1), keep)
         \o (IF Len(cs) \in keep THEN <<cs[Len(cs)]>> ELSE <<>>)

RemoveCall(cs, k) == SelectCalls(cs, DOMAIN cs \ {k})

\* mediaRecorderRef.current of the mounted SpeakerRecorder i while it records:
\* the recorder it started last
mediaRecorderRef(i) ==
    CHOOSE k \in DOMAIN calls :
        /\ calls[k].kind = "record" /\ calls[k].stage = "recording"
        /\ calls[k].spk = i /\ calls[k].live

\* what is left of the calls when a render unmounts components: a dashboard is
\* unmounted by a change of session (its key), a SpeakerRecorder also by a phase
\* other than debate.  A recorder that was never stopped has no handler left.
AfterRender(cs, remount, keepRecorders) ==
    LET kept == SelectCalls(cs, {k \in DOMAIN cs :
                    (cs[k].kind = "record" /\ cs[k].stage = "recording")
                        => keepRecorders})
    IN [k \in DOMAIN kept |->
           [kept[k] EXCEPT !.live = @ /\ (IF kept[k].kind = "record"
                                          THEN keepRecorders ELSE ~remount)]]

\* A render is committed with store ss and active session a: the results view
\* sorts the rankings, effects run, unmounted components lose their state.
Commit(ss, a, remount, rec, anl, cs) ==
    LET shown == RenderStore(ss, a)
        S2 == Find(shown, a)
        keep == ~remount /\ ActiveRendered.phase = "debate" /\ S2.phase = "debate"
    IN /\ sessions' = shown
       /\ rendered' = shown
       /\ activeSessionId' = a
       /\ prepEffect' = IF remount \/ PrepDeps(S2) # PrepDeps(prepEffect)
                        THEN S2 ELSE prepEffect
       /\ isRecording' = IF keep THEN rec ELSE NoFlags
       /\ isAnalyzing' = IF keep THEN anl ELSE NoFlags
       /\ calls' = AfterRender(cs, remount, keep)

\* A callback that is no React event handler (an interval, the continuation of an
\* await) writes the store: React renders in the same task (sync) or schedules
\* the render, and other callbacks may run before it is committed.
Write(ss, sync, rec, anl, cs) ==
    IF sync
    THEN Commit(ss, activeSessionId, FALSE, rec, anl, cs)
    ELSE /\ sessions' = ss
         /\ isRecording' = rec
         /\ isAnalyzing' = anl
         /\ calls' = cs
         /\ UNCHANGED <<rendered, activeSessionId, prepEffect>>

\* a new dashboard mounts: its useState initial values
MountDashboard(topic) ==
    /\ motionInput' = topic
    /\ isAnalyzingMotion' = FALSE
    /\ skipPrepTime' = FALSE
    /\ isOnline' = isOnline

\* the setup form is shown and no analysis is running
FormIdle == ActiveRendered.phase = "setup" /\ ~isAnalyzingMotion

-----------------------------------------------------------------------------
(* Actions *)

\* a scheduled render is committed
Render ==
    /\ rendered # RenderStore(sessions, activeSessionId)
    /\ Commit(sessions, activeSessionId, FALSE, isRecording, isAnalyzing, calls)
    /\ last' = Event("render", 0)
    /\ UNCHANGED <<nextId, started, apiKey, uiVars, fnVars>>

\* Date.now() reads `now`: a later millisecond than the one of the latest id, or
\* the same one again
createNewSession(now) ==
    /\ now = nextId \/ (now = nextId - 1 /\ nextId > 2)
    /\ now <= MaxSessions
    /\ Len(rendered) < MaxStored
    /\ LET newId == SessionId(now)
           newSession == NewSession(newId, Len(rendered) + 1)
       IN /\ Commit(Append(rendered, newSession), newId, TRUE, isRecording,
                    isAnalyzing, calls)
          /\ MountDashboard(newSession.topic)
    /\ nextId' = now + 1
    /\ last' = Event("createNewSession", 0)
    /\ UNCHANGED <<started, apiKey, fnVars>>

\* With every stored session carrying the id, the filter leaves nothing:
\* setSessions([]) is queued and newSessions[0].id throws, so the empty list is
\* stored, activeSessionId stays and no dashboard is rendered.
deleteSession(id) ==
    /\ id \in IdsOf(rendered)
    /\ Len(rendered) # 1
    /\ LET newSessions == Without(rendered, id)
           a == IF activeSessionId = id THEN newSessions[1].id ELSE activeSessionId
       IN IF newSessions = <<>>
          THEN /\ sessions' = newSessions
               /\ rendered' = newSessions
               /\ prepEffect' = NoDashboard
               /\ isRecording' = NoFlags
               /\ isAnalyzing' = NoFlags
               /\ calls' = AfterRender(calls, TRUE, FALSE)
               /\ UNCHANGED <<activeSessionId, uiVars>>
          ELSE /\ Commit(newSessions, a, a # activeSessionId, isRecording,
                         isAnalyzing, calls)
               /\ IF a # activeSessionId
                  THEN MountDashboard(Find(newSessions, a).topic)
                  ELSE UNCHANGED uiVars
    /\ last' = Event("deleteSession", 0)
    /\ UNCHANGED <<nextId, started, apiKey, fnVars>>

\* onClick={() => setActiveSessionId(session.id)}
selectSession(id) ==
    /\ id \in IdsOf(rendered)
    /\ id # activeSessionId
    /\ Commit(sessions, id, TRUE, isRecording, isAnalyzing, calls)
    /\ MountDashboard(Find(sessions, id).topic)
    /\ last' = Event("selectSession", 0)
    /\ UNCHANGED <<nextId, started, apiKey, fnVars>>

setMotionInput(m) ==
    /\ FormIdle
    /\ m # motionInput
    /\ motionInput' = m
    /\ last' = Event("setMotionInput", 0)
    /\ UNCHANGED <<sessions, activeSessionId, nextId, rendered, prepEffect,
                   isAnalyzingMotion, isOnline, skipPrepTime, recVars, calls,
                   started, apiKey, fnVars>>

setSkipPrepTime ==
    /\ FormIdle
    /\ skipPrepTime' = ~skipPrepTime
    /\ last' = Event("setSkipPrepTime", 0)
    /\ UNCHANGED <<sessions, activeSessionId, nextId, rendered, prepEffect,
                   motionInput, isAnalyzingMotion, isOnline, recVars, calls,
                   started, apiKey, fnVars>>

\* the window's online / offline events
setIsOnline(b) ==
    /\ FormIdle
    /\ b # isOnline
    /\ isOnline' = b
    /\ last' = Event("setIsOnline", 0)
    /\ UNCHANGED <<sessions, activeSessionId, nextId, rendered, prepEffect,
                   motionInput, isAnalyzingMotion, skipPrepTime, recVars, calls,
                   started, apiKey, fnVars>>

\* handleAnalyzeAndStart up to its await, or to one of its two early returns
handleAnalyzeAndStart ==
    /\ FormIdle
    /\ IF Trim(motionInput) = <<>> \/ ~isOnline
       THEN /\ last' = Event("analyzeRejected", 0)
            /\ UNCHANGED <<sessions, activeSessionId, nextId, rendered, prepEffect,
                           uiVars, recVars, calls, started, apiKey, fnVars>>
       ELSE /\ started < MaxCalls
            /\ isAnalyzingMotion' = TRUE
            /\ calls' = Append(calls, Call("analyze", "awaiting", ActiveRendered, 0,
                                           motionInput, skipPrepTime))
            /\ started' = started + 1
            /\ last' = Event("handleAnalyzeAndStart", 0)
            /\ UNCHANGED <<sessions, activeSessionId, nextId, rendered, prepEffect,
                           motionInput, isOnline, skipPrepTime, recVars, apiKey,
                           fnVars>>

\* handleAnalyzeAndStart from its await on
analyzeDone(k, r, sync) ==
    LET c == calls[k]
        res == analyzeMotionContext(apiKey, r)
    IN /\ c.kind = "analyze"
       /\ Write(IF res.threw THEN sessions
                ELSE updateSession(sessions,
                         StartUpdate(c.session, c.motion, c.skip, res.value[1])),
                sync, isRecording, isAnalyzing, RemoveCall(calls, k))
       /\ isAnalyzingMotion' = IF c.live THEN FALSE ELSE isAnalyzingMotion
       /\ last' = Event(IF ApiFailed(r) THEN "analyzeFailed" ELSE "analyzeDone", 0)
       /\ UNCHANGED <<nextId, motionInput, isOnline, skipPrepTime, started, apiKey,
                      fnVars>>

\* the prep timer's interval callback
prepTick(sync) ==
    /\ PrepIntervalRuns(prepEffect)
    /\ Write(updateSession(sessions, PrepTickUpdate(prepEffect)), sync, isRecording,
             isAnalyzing, calls)
    /\ last' = Event("prepTick", 0)
    /\ UNCHANGED <<nextId, uiVars, started, apiKey, fnVars>>

handleSkipPrep ==
    /\ ActiveRendered.phase = "prep"
    /\ Commit(updateSession(sessions, SkipPrepUpdate(ActiveRendered)), activeSessionId,
              FALSE, isRecording, isAnalyzing, calls)
    /\ last' = Event("handleSkipPrep", 0)
    /\ UNCHANGED <<nextId, started, apiKey, uiVars, fnVars>>

\* the speech timer's interval callback of the speaker at position i
speechTick(i, sync) ==
    LET S == ActiveRendered
        sp == S.speakers[i]
    IN /\ S.phase = "debate"
       /\ SpeechIntervalRuns(sp)
       /\ Write(updateSession(sessions,
                    handleUpdateSpeaker(S, sp.id, SpeechTickPatch(sp))),
                sync, isRecording, isAnalyzing, calls)
       /\ last' = Event("speechTick", i)
       /\ UNCHANGED <<nextId, uiVars, started, apiKey, fnVars>>

toggleSpeechTimer(i) ==
    LET S == ActiveRendered
        sp == S.speakers[i]
    IN /\ S.phase = "debate"
       /\ Commit(updateSession(sessions, handleUpdateSpeaker(S, sp.id, TogglePatch(sp))),
                 activeSessionId, FALSE, isRecording, isAnalyzing, calls)
       /\ last' = Event("toggleSpeechTimer", i)
       /\ UNCHANGED <<nextId, started, apiKey, uiVars, fnVars>>

resetSpeechTimer(i) ==
    LET S == ActiveRendered
        sp == S.speakers[i]
    IN /\ S.phase = "debate"
       /\ Commit(updateSession(sessions, handleUpdateSpeaker(S, sp.id, ResetPatch)),
                 activeSessionId, FALSE, isRecording, isAnalyzing, calls)
       /\ last' = Event("resetSpeechTimer", i)
       /\ UNCHANGED <<nextId, started, apiKey, uiVars, fnVars>>

\* startRecording, the microphone granted; the recorder's onstop is the
\* handleRecordingStop of this render
startRecording(i) ==
    LET S == ActiveRendered
    IN /\ S.phase = "debate"
       /\ ~S.speakers[i].isCompleted
       /\ ~isAnalyzing[i]
       /\ ~isRecording[i]
       /\ started < MaxCalls
       /\ calls' = Append(calls, Call("record", "recording", S, i, <<>>, FALSE))
       /\ isRecording' = [isRecording EXCEPT ![i] = TRUE]
       /\ started' = started + 1
       /\ last' = Event("startRecording", i)
       /\ UNCHANGED <<sessions, activeSessionId, nextId, rendered, prepEffect, uiVars,
                      isAnalyzing, apiKey, fnVars>>

stopRecording(i) ==
    LET S == ActiveRendered
    IN /\ S.phase = "debate"
       /\ ~S.speakers[i].isCompleted
       /\ ~isAnalyzing[i]
       /\ isRecording[i]
       /\ calls' = [calls EXCEPT ![mediaRecorderRef(i)].stage = "stopping"]
       /\ isRecording' = [isRecording EXCEPT ![i] = FALSE]
       /\ last' = Event("stopRecording", i)
       /\ UNCHANGED <<sessions, activeSessionId, nextId, rendered, prepEffect, uiVars,
                      isAnalyzing, started, apiKey, fnVars>>

\* the recorder's stop event: handleRecordingStop, processAudio up to its await
handleRecordingStop(k) ==
    LET c == calls[k]
    IN /\ c.kind = "record"
       /\ c.stage = "stopping"
       /\ calls' = [calls EXCEPT ![k].stage = "evaluating"]
       /\ isAnalyzing' = IF c.live THEN [isAnalyzing EXCEPT ![c.spk] = TRUE]
                         ELSE isAnalyzing
       /\ last' = Event("handleRecordingStop", c.spk)
       /\ UNCHANGED <<sessions, activeSessionId, nextId, rendered, prepEffect, uiVars,
                      isRecording, started, apiKey, fnVars>>

\* processAudio from its await on
processAudioDone(k, r, sync) ==
    LET c == calls[k]
        res == analyzeSpeakerAudio(apiKey, r)
        speaker == c.session.speakers[c.spk]
    IN /\ c.kind = "record"
       /\ c.stage = "evaluating"
       /\ Write(IF res.threw THEN sessions
                ELSE updateSession(sessions,
                         handleUpdateSpeaker(c.session, speaker.id,
                                             CompletionPatch(res.value[1]))),
                sync, isRecording,
                IF c.live THEN [isAnalyzing EXCEPT ![c.spk] = FALSE] ELSE isAnalyzing,
                RemoveCall(calls, k))
       /\ last' = Event(IF res.threw THEN "processAudioFailed" ELSE "processAudioDone",
                        c.spk)
       /\ UNCHANGED <<nextId, uiVars, started, apiKey, fnVars>>

\* handleFinishDebate up to its await; with fewer than 8 speakers completed the
\* user confirms
handleFinishDebate ==
    LET S == ActiveRendered
    IN /\ S.phase = "debate"
       /\ started < MaxCalls
       /\ Commit(updateSession(sessions, AdjudicatingUpdate(S)), activeSessionId,
                 FALSE, isRecording, isAnalyzing,
                 Append(calls, Call("finish", "awaiting", S, 0, <<>>, FALSE)))
       /\ started' = started + 1
       /\ last' = Event("handleFinishDebate", 0)
       /\ UNCHANGED <<nextId, apiKey, uiVars, fnVars>>

\* handleFinishDebate from its await on
finishDone(k, r, sync) ==
    LET c == calls[k]
        res == generateFinalRanking(apiKey, r)
    IN /\ c.kind = "finish"
       /\ Write(updateSession(sessions,
                    IF RankingThrows(res) THEN RevertUpdate(c.session)
                    ELSE RankedUpdate(c.session, res.value[1])),
                sync, isRecording, isAnalyzing, RemoveCall(calls, k))
       /\ last' = Event(IF RankingThrows(res) THEN "finishFailed" ELSE "finishRanked", 0)
       /\ UNCHANGED <<nextId, uiVars, started, apiKey, fnVars>>

-----------------------------------------------------------------------------
(* The specification *)

NoAggregation == [rankings |-> <<>>, speakers |-> INITIAL_SPEAKERS]

\* App and the dashboard of the default session as first mounted
InitApp ==
    /\ sessions = <<NewSession(SessionId(1), 1)>>
    /\ activeSessionId = SessionId(1)
    /\ nextId = 2
    /\ rendered = sessions
    /\ prepEffect = sessions[1]
    /\ motionInput = sessions[1].topic
    /\ isAnalyzingMotion = FALSE
    /\ isOnline \in BOOLEAN
    /\ skipPrepTime = FALSE
    /\ isRecording = NoFlags
    /\ isAnalyzing = NoFlags
    /\ calls = <<>>
    /\ started = 0
    /\ apiKey \in BOOLEAN
    /\ last = Event("init", 0)

\* no speaker update under way
NoUpdate == [store |-> NewSession(SessionId(1), 1), closure |-> NewSession(SessionId(1), 1),
             id |-> "1", updates |-> ResetPatch]

Init ==
    /\ InitApp
    /\ aggIn = NoAggregation
    /\ aggOut = None
    /\ updIn = NoUpdate
    /\ updOut = None

\* the events of one dashboard, every render committed before the next event
Dashboard(sync, timed, recorded) ==
    \/ \E m \in Motions : setMotionInput(m)
    \/ setSkipPrepTime
    \/ \E b \in BOOLEAN : setIsOnline(b)
    \/ handleAnalyzeAndStart
    \/ \E k \in DOMAIN calls, r \in MotionResponses : analyzeDone(k, r, sync)
    \/ prepTick(sync)
    \/ handleSkipPrep
    \/ \E i \in timed : speechTick(i, sync)
    \/ \E i \in timed : toggleSpeechTimer(i)
    \/ \E i \in timed : resetSpeechTimer(i)
    \/ \E i \in recorded : startRecording(i)
    \/ \E i \in recorded : stopRecording(i)
    \/ \E k \in DOMAIN calls : handleRecordingStop(k)
    \/ \E k \in DOMAIN calls, r \in AudioResponses : processAudioDone(k, r, sync)
    \/ handleFinishDebate
    \/ \E k \in DOMAIN calls, r \in RankingResponses : finishDone(k, r, sync)

Next == Dashboard(TRUE, Timed, Recorded)

Spec == Init /\ [][Next]_vars

-----------------------------------------------------------------------------
(* The session list of App with the dashboard of the active session: sessions *)
(* are created (each in a millisecond of its own), selected and deleted, and a *)
(* store write of a timer or of an await's continuation is rendered in the     *)
(* same task or in a later one.                                                *)

NextStore ==
    \/ createNewSession(nextId)
    \/ \E id \in IdsOf(rendered) : deleteSession(id)
    \/ \E id \in IdsOf(rendered) : selectSession(id)
    \/ Render
    \/ \E m \in Motions : setMotionInput(m)
    \/ setSkipPrepTime
    \/ handleAnalyzeAndStart
    \/ \E k \in DOMAIN calls, r \in MotionResponses, sync \in BOOLEAN :
          analyzeDone(k, r, sync)
    \/ \E sync \in BOOLEAN : prepTick(sync)
    \/ handleSkipPrep
    \/ \E i \in Timed : toggleSpeechTimer(i)
    \/ handleFinishDebate
    \/ \E k \in DOMAIN calls, r \in RankingResponses, sync \in BOOLEAN :
          finishDone(k, r, sync)

SpecStore == Init /\ [][NextStore]_vars

-----------------------------------------------------------------------------
(* The session list on its own: 'New Debate', a click on a session and a      *)
(* click on its delete button, with the clock of the ids read in the same or   *)
(* in a later millisecond, and the motion typed into the mounted dashboard.    *)

NextList ==
    \/ \E now \in {nextId - 1, nextId} : createNewSession(now)
    \/ \E id \in IdsOf(rendered) : deleteSession(id)
    \/ \E id \in IdsOf(rendered) : selectSession(id)
    \/ Mounted /\ \E m \in Motions : setMotionInput(m)

SpecList == Init /\ [][NextList]_vars

-----------------------------------------------------------------------------
(* Two speech timers of one dashboard: the interval callbacks of two          *)
(* SpeakerRecorders and the clicks on their timer buttons, with the render of *)
(* an interval's store write committed in the same task or in a later one.    *)

\* positions of the speakers whose timers run side by side
TimedPair == 1..(MaxTimed + 1)

NextTimers ==
    \/ Render
    \/ \E m \in Motions : setMotionInput(m)
    \/ setSkipPrepTime
    \/ handleAnalyzeAndStart
    \/ \E k \in DOMAIN calls, r \in MotionResponses : analyzeDone(k, r, TRUE)
    \/ handleSkipPrep
    \/ \E i \in TimedPair, sync \in BOOLEAN : speechTick(i, sync)
    \/ \E i \in TimedPair : toggleSpeechTimer(i)
    \/ \E i \in TimedPair : resetSpeechTimer(i)

SpecTimers == Init /\ [][NextTimers]_vars

-----------------------------------------------------------------------------
(* The timers of the sessions of the list under fair ticking: sessions are    *)
(* created and selected, their motions analysed and their timers started, and *)
(* an interval that an effect holds keeps firing: setInterval calls its       *)
(* callback every second until the effect's cleanup clears it.                *)

NextTicking ==
    \/ createNewSession(nextId)
    \/ \E id \in IdsOf(rendered) : selectSession(id)
    \/ \E m \in Motions : setMotionInput(m)
    \/ setSkipPrepTime
    \/ handleAnalyzeAndStart
    \/ \E k \in DOMAIN calls, r \in MotionResponses : analyzeDone(k, r, TRUE)
    \/ prepTick(TRUE)
    \/ handleSkipPrep
    \/ \E i \in Timed : toggleSpeechTimer(i)
    \/ \E i \in Timed : speechTick(i, TRUE)

\* every interval that is held fires
FairTicking ==
    /\ WF_vars(prepTick(TRUE))
    /\ \A i \in Timed : WF_vars(speechTick(i, TRUE))

SpecTicking == Init /\ [][NextTicking]_vars /\ FairTicking

-----------------------------------------------------------------------------
(* Sessions deleted while their calls are in flight: sessions are created and *)
(* deleted, and the dashboard of the active session runs its analysis, its    *)
(* timers, its recordings and its ranking, every render committed before the  *)
(* next event.                                                                *)

NextDeleted ==
    \/ createNewSession(nextId)
    \/ \E id \in IdsOf(rendered) : deleteSession(id)
    \/ setMotionInput(MotionShort)
    \/ setSkipPrepTime
    \/ handleAnalyzeAndStart
    \/ \E k \in DOMAIN calls, r \in MotionResponses : analyzeDone(k, r, TRUE)
    \/ prepTick(TRUE)
    \/ \E i \in Timed : speechTick(i, TRUE)
    \/ \E i \in Timed : toggleSpeechTimer(i)
    \/ \E i \in Timed : startRecording(i)
    \/ \E i \in Timed : stopRecording(i)
    \/ \E k \in DOMAIN calls : handleRecordingStop(k)
    \/ \E k \in DOMAIN calls, r \in AudioResponses : processAudioDone(k, r, TRUE)
    \/ handleFinishDebate
    \/ \E k \in DOMAIN calls, r \in RankingResponses : finishDone(k, r, TRUE)

SpecDeleted == Init /\ [][NextDeleted]_vars

-----------------------------------------------------------------------------
(* The ranking aggregation on its own: the rank list of a RankingResult and   *)
(* the speakers of a session, through the map of handleFinishDebate.          *)

\* the scores of the round-trip example, in roster order
ExampleScores == <<18, 15, 17, 14, 16, 13, 19, 12>>

\* speaker i as created, or completed with a score
Scored(i, score) ==
    IF score = None THEN INITIAL_SPEAKERS[i]
    ELSE Merge(INITIAL_SPEAKERS[i],
               CompletionPatch([transcription |-> "speech", score |-> score[1],
                                feedback |-> "feedback"]))

\* incomplete, completed with the example's score, completed with the score 0
\* that analyzeSpeakerAudio gives a response without one
ScoreChoices(i) == {None, Some(ExampleScores[i]), Some(0)}

AggSpeakers ==
    {[i \in 1..8 |-> Scored(i, f[i])] :
        f \in ScoreChoices(1) \X ScoreChoices(2) \X ScoreChoices(3) \X ScoreChoices(4)
              \X ScoreChoices(5) \X ScoreChoices(6) \X ScoreChoices(7)
              \X ScoreChoices(8)}

InitAgg ==
    /\ InitApp
    /\ isOnline
    /\ apiKey
    /\ aggIn \in [rankings : RankLists, speakers : AggSpeakers]
    /\ aggOut = None
    /\ updIn = NoUpdate
    /\ updOut = None

\* result.rankings.map(...) of handleFinishDebate
aggregate ==
    /\ aggOut = None
    /\ aggOut' = Some(Aggregate(aggIn.rankings, aggIn.speakers))
    /\ last' = Event("aggregate", 0)
    /\ UNCHANGED <<sessions, activeSessionId, nextId, rendered, prepEffect, uiVars,
                   recVars, calls, started, apiKey, aggIn, updVars>>

NextAgg == aggregate

SpecAgg == InitAgg /\ [][NextAgg]_vars

-----------------------------------------------------------------------------
(* handleUpdateSpeaker on its own: a handler created in one render of a      *)
(* session is called with a speaker id and a Partial<Speaker>, and what it   *)
(* hands to onUpdate replaces the session in the store.                      *)

\* a session in phase 'debate'
DebateSession ==
    [NewSession(SessionId(1), 1) EXCEPT
        !.topic = MotionShort, !.title = MotionShort,
        !.motionContext = Some(FallbackContext), !.phase = "debate",
        !.prepTimeLeft = 0]

\* the session as created, with speaker 1's timer running, with speaker 2 completed
UpdSessions ==
    {DebateSession,
     [DebateSession EXCEPT !.speakers[1].isSpeechTimerRunning = TRUE],
     [DebateSession EXCEPT !.speakers[2] =
         Scored(2, Some(16))]}

\* "9" is the id of no speaker
UpdIds == {"1", "2", "8", "9"}

\* the patches of the callers, and patches of the identifying fields
UpdPatches ==
    {[speechTimeLeft |-> 1],
     [isSpeechTimerRunning |-> TRUE],
     ResetPatch,
     CompletionPatch([transcription |-> "speech", score |-> 16,
                      feedback |-> "feedback"]),
     [team |-> CO],
     [role |-> "Opposition Whip"],
     [id |-> "9"]}

InitUpdate ==
    /\ InitApp
    /\ isOnline
    /\ apiKey
    /\ aggIn = NoAggregation
    /\ aggOut = None
    /\ updIn \in [store : UpdSessions, closure : UpdSessions, id : UpdIds,
                  updates : UpdPatches]
    /\ updOut = None

\* handleUpdateSpeaker(id, updates) of a render with session updIn.closure
applyUpdate ==
    /\ updOut = None
    /\ updOut' = Some(Find(updateSession(<<updIn.store>>,
                               handleUpdateSpeaker(updIn.closure, updIn.id,
                                                   updIn.updates)),
                           updIn.store.id))
    /\ last' = Event("applyUpdate", 0)
    /\ UNCHANGED <<sessions, activeSessionId, nextId, rendered, prepEffect, uiVars,
                   recVars, calls, started, apiKey, aggVars, updIn>>

NextUpdate == applyUpdate

SpecUpdate == InitUpdate /\ [][NextUpdate]_vars

-----------------------------------------------------------------------------
(* The debate phase on its own: the dashboard of a session whose motion was   *)
(* analysed with the preparation skipped, its recorders and its ranking calls, *)
(* so that every call counted is one of the debate.                            *)

InitDebate ==
    /\ sessions = <<DebateSession>>
    /\ activeSessionId = SessionId(1)
    /\ nextId = 2
    /\ rendered = sessions
    /\ prepEffect = sessions[1]
    /\ motionInput = sessions[1].topic
    /\ isAnalyzingMotion = FALSE
    /\ isOnline = TRUE
    /\ skipPrepTime = TRUE
    /\ isRecording = NoFlags
    /\ isAnalyzing = NoFlags
    /\ calls = <<>>
    /\ started = 0
    /\ apiKey = TRUE
    /\ last = Event("init", 0)
    /\ aggIn = NoAggregation
    /\ aggOut = None
    /\ updIn = NoUpdate
    /\ updOut = None

NextDebate ==
    \/ \E i \in Recorded : startRecording(i)
    \/ \E i \in Recorded : stopRecording(i)
    \/ \E k \in DOMAIN calls : handleRecordingStop(k)
    \/ \E k \in DOMAIN calls, r \in AudioResponses : processAudioDone(k, r, TRUE)
    \/ handleFinishDebate
    \/ \E k \in DOMAIN calls, r \in RankingResponses : finishDone(k, r, TRUE)

SpecDebate == InitDebate /\ [][NextDebate]_vars

-----------------------------------------------------------------------------
(* Properties of the aggregation, under SpecAgg *)

\* C5: each TeamResult's totalScore is the sum of the scores of the two speakers
\* of its team, an incomplete speaker contributing exactly 0; the scores
\* 18,15,17,14,16,13,19,12 in roster order give OG 35, OO 29, CG 35, CO 25, and a
\* completed speaker with 16 beside an incomplete one gives 16.
C5_TotalScoreIsTeamSum ==
    aggOut # None =>
        \A i \in DOMAIN aggOut[1] :
            LET sp == aggIn.speakers
                members == {j \in DOMAIN sp : sp[j].team = aggOut[1][i].team}
                first == CHOOSE j \in members : TRUE
                second == CHOOSE j \in members \ {first} : TRUE
                given(j) == IF sp[j].isCompleted THEN sp[j].score[1] ELSE 0
                expected == [t \in Team |->
                                IF t = OG THEN 35 ELSE IF t = OO THEN 29
                                ELSE IF t = CG THEN 35 ELSE 25]
            IN /\ Cardinality(members) = 2
               /\ aggOut[1][i].totalScore = given(first) + given(second)
               /\ (\A j \in DOMAIN sp : sp[j].score = Some(ExampleScores[j]))
                      => aggOut[1][i].totalScore = expected[aggOut[1][i].team]
               /\ (/\ aggOut[1][i].team = CG
                   /\ sp[5].score = Some(16)
                   /\ ~sp[7].isCompleted)
                      => aggOut[1][i].totalScore = 16

\* an aggregation of a team with one speaker completed with 16 and one incomplete,
\* and of a team with both speakers incomplete
C5_Witness ==
    /\ aggOut # None
    /\ aggIn.speakers[5].score = Some(16)
    /\ ~aggIn.speakers[7].isCompleted
    /\ ~aggIn.speakers[1].isCompleted
    /\ ~aggIn.speakers[3].isCompleted
    /\ \E i \in DOMAIN aggOut[1] : aggOut[1][i].team = CG /\ aggOut[1][i].totalScore = 16
    /\ \E i \in DOMAIN aggOut[1] : aggOut[1][i].team = OG /\ aggOut[1][i].totalScore = 0

-----------------------------------------------------------------------------
(* Properties of the dashboard, under Spec *)

\* C1: when the finish action was taken in phase 'debate' and generateFinalRanking
\* fails, the stored session has phase 'debate', isAdjudicating false,
\* finalRankings and overallAdjudication null, and the topic, motionContext and
\* speakers the session had when finish was invoked.
C1_RankingFailureRestoresDebate ==
    [][\A k \in DOMAIN calls, r \in RankingResponses :
          (finishDone(k, r, TRUE) /\ ApiFailed(r) /\ calls[k].session.phase = "debate")
          => LET atFinish == calls[k].session
                 s == Find(sessions', atFinish.id)
             IN /\ s.phase = "debate"
                /\ ~s.isAdjudicating
                /\ s.finalRankings = None
                /\ s.overallAdjudication = Null
                /\ s.topic = atFinish.topic
                /\ s.motionContext = atFinish.motionContext
                /\ s.speakers = atFinish.speakers
                /\ Len(s.speakers) = 8]_vars

\* a ranking call has failed and the session is back in 'debate'
C1_Witness ==
    /\ last.op = "finishFailed"
    /\ started >= 2
    /\ calls = <<>>
    /\ sessions[1].phase = "debate"
    /\ ~sessions[1].isAdjudicating
    /\ sessions[1].finalRankings = None

\* C4: the finish action in phase 'debate' stores phase 'results' with
\* isAdjudicating true and starts a ranking call on the session's speakers, topic
\* and motionContext; when the call returns a rank list the session has
\* finalRankings and overallAdjudication from the result, isAdjudicating false
\* and phase 'results'.
C4_FinishAdjudicatesThenRanks ==
    [][/\ handleFinishDebate
          => LET before == Find(sessions, activeSessionId)
                 after == Find(sessions', activeSessionId)
                 c == calls'[Len(calls')]
             IN /\ before.phase = "debate"
                /\ after.phase = "results"
                /\ after.isAdjudicating
                /\ after.finalRankings = None
                /\ c.kind = "finish"
                /\ c.session.speakers = before.speakers
                /\ Len(c.session.speakers) = 8
                /\ c.session.topic = before.topic
                /\ c.session.motionContext = before.motionContext
       /\ \A k \in DOMAIN calls, r \in RankingResponses :
             (finishDone(k, r, TRUE) /\ ~ApiFailed(r) /\ r.json.rankings # None)
             => LET s == Find(sessions', calls[k].session.id)
                    given == r.json.rankings[1]
                    entry(e) == <<e.team, e.rank, e.reasoning>>
                IN /\ s.phase = "results"
                   /\ ~s.isAdjudicating
                   /\ s.finalRankings # None
                   /\ Len(s.finalRankings[1]) = Len(given)
                   /\ {entry(s.finalRankings[1][i]) : i \in DOMAIN s.finalRankings[1]}
                          = {entry(given[i]) : i \in DOMAIN given}
                   /\ s.overallAdjudication = r.json.overallAdjudication]_vars

\* a ranking call has returned a rank list and the session shows the results
C4_Witness ==
    /\ last.op = "finishRanked"
    /\ sessions[1].phase = "results"
    /\ ~sessions[1].isAdjudicating
    /\ sessions[1].finalRankings # None
    /\ sessions[1].overallAdjudication = "rfd"

\* C9: every stored speaker's speechTimeLeft is an integer in
\* [0, SPEECH_TIME_SECONDS] and every stored session's prepTimeLeft an integer in
\* [0, PREP_TIME_SECONDS].
C9_TimersInRange ==
    \A n \in DOMAIN sessions :
        /\ sessions[n].prepTimeLeft \in 0..PREP_TIME_SECONDS
        /\ \A i \in DOMAIN sessions[n].speakers :
              sessions[n].speakers[i].speechTimeLeft \in 0..SPEECH_TIME_SECONDS

\* a speech timer has ticked down to 0 with its flag still set, in a session whose
\* preparation time is 0
C9_Witness ==
    /\ last.op = "speechTick"
    /\ sessions[1].prepTimeLeft = 0
    /\ \E i \in Timed :
          /\ sessions[1].speakers[i].speechTimeLeft = 0
          /\ sessions[1].speakers[i].isSpeechTimerRunning

\* C2: a motion analysis that fails (API key missing, network or model error,
\* unparseable response) leaves the stored session as it was, and a session
\* leaves phase 'setup' only on a successful motion-analysis result.
C2_AnalysisFailureLeavesSession ==
    [][/\ \A k \in DOMAIN calls, r \in MotionResponses :
             (analyzeDone(k, r, TRUE) /\ ApiFailed(r))
             => LET before == Find(sessions, calls[k].session.id)
                    after == Find(sessions', calls[k].session.id)
                IN /\ after.phase = "setup"
                   /\ after.motionContext = None
                   /\ after.topic = before.topic
                   /\ after.title = before.title
                   /\ after.prepTimeLeft = before.prepTimeLeft
                   /\ after = before
       /\ \A n \in DOMAIN sessions :
             (sessions[n].phase = "setup" /\ sessions'[n].phase # "setup")
             => last'.op = "analyzeDone"]_vars

\* C3: the preparation tick that takes prepTimeLeft to 0 stores phase 'debate'
\* with prepTimeLeft 0 and isAdjudicating false.
C3_PrepTimerEndStartsDebate ==
    [][prepTick(TRUE)
          => \A n \in DOMAIN sessions :
                (sessions[n].prepTimeLeft > 0 /\ sessions'[n].prepTimeLeft = 0)
                => /\ sessions'[n].phase = "debate"
                   /\ ~sessions'[n].isAdjudicating]_vars

\* C6: whenever finalRankings is non-null it has exactly 4 entries, one for each
\* team, with the ranks 1..4 each given once: a rank list that is no such
\* permutation is never stored.
C6_FinalRankingsIsPermutation ==
    \A n \in DOMAIN sessions :
        sessions[n].finalRankings # None
        => LET list == sessions[n].finalRankings[1]
           IN /\ Len(list) = 4
              /\ {list[i].team : i \in DOMAIN list} = Team
              /\ {list[i].rank : i \in DOMAIN list} = 1..4

\* C8: a handleUpdateSpeaker call, from a timer tick, a toggle, a reset or an
\* evaluation completion, leaves the 7 other speakers of the stored session as
\* they were in the store immediately before the call.
C8_UpdateLeavesOtherSpeakers ==
    [][last'.op \in {"speechTick", "toggleSpeechTimer", "resetSpeechTimer",
                     "processAudioDone"}
          => \A n \in DOMAIN sessions :
                \A i \in DOMAIN sessions[n].speakers :
                    i # last'.spk
                    => sessions'[n].speakers[i] = sessions[n].speakers[i]]_vars

\* C10: for every stored speaker, speechTimeLeft = 0 implies that
\* isSpeechTimerRunning is false.
C10_StoppedAtZero ==
    \A n \in DOMAIN sessions :
        \A i \in DOMAIN sessions[n].speakers :
            sessions[n].speakers[i].speechTimeLeft = 0
            => ~sessions[n].speakers[i].isSpeechTimerRunning

\* C11: a session in phase 'results' with its ranking stored (finalRankings
\* populated, isAdjudicating false) stays in 'results' with finalRankings and
\* overallAdjudication populated under every later event, timer callbacks and
\* completions of evaluations started in 'debate' included.
C11_ResultsAreKept ==
    [][\A n \in DOMAIN sessions :
          (/\ sessions[n].phase = "results"
           /\ ~sessions[n].isAdjudicating
           /\ sessions[n].finalRankings # None)
          => /\ sessions'[n].phase = "results"
             /\ sessions'[n].finalRankings # None
             /\ sessions'[n].overallAdjudication = sessions[n].overallAdjudication]_vars

\* C12: when analyzeSpeakerAudio fails for a speaker nothing is written to the
\* store: that speaker, the 7 others and the phase are as before, and the
\* speaker's recorder is free for a retry.
C12_EvaluationFailureWritesNothing ==
    [][\A k \in DOMAIN calls, r \in AudioResponses :
          (processAudioDone(k, r, TRUE) /\ ApiFailed(r))
          => LET id == calls[k].session.id
                 i == calls[k].spk
                 before == Find(sessions, id)
                 after == Find(sessions', id)
             IN /\ sessions' = sessions
                /\ after.phase = before.phase
                /\ \A j \in 1..8 : after.speakers[j] = before.speakers[j]
                /\ (~before.speakers[i].isCompleted)
                      => /\ ~after.speakers[i].isCompleted
                         /\ after.speakers[i].score = None
                         /\ after.speakers[i].transcription = Undef
                         /\ after.speakers[i].feedback = Undef
                /\ calls[k].live => ~isAnalyzing'[i]]_vars

\* an evaluation has failed; the speaker is incomplete and can be recorded again
C12_Witness ==
    /\ last.op = "processAudioFailed"
    /\ sessions[1].phase = "debate"
    /\ ~sessions[1].speakers[last.spk].isCompleted
    /\ sessions[1].speakers[last.spk].score = None
    /\ ~isAnalyzing[last.spk]
    /\ ~isRecording[last.spk]
    /\ started < MaxCalls

\* C13: when the analysis of a motion submitted in phase 'setup' succeeds, one
\* store write takes the session to phase 'prep' with prepTimeLeft =
\* PREP_TIME_SECONDS (skip not chosen) or to phase 'debate' with prepTimeLeft = 0
\* (skip chosen), with motionContext the analysis result and topic the submitted
\* motion.
C13_AnalysisSuccessStartsSession ==
    [][\A k \in DOMAIN calls, r \in MotionResponses :
          (analyzeDone(k, r, TRUE) /\ ~ApiFailed(r))
          => LET c == calls[k]
                 before == Find(sessions, c.session.id)
                 after == Find(sessions', c.session.id)
             IN /\ before.phase = "setup"
                /\ before.motionContext = None
                /\ \E j \in DOMAIN c.motion : c.motion[j] # Blank
                /\ after.phase = IF c.skip THEN "debate" ELSE "prep"
                /\ after.prepTimeLeft = IF c.skip THEN 0 ELSE PREP_TIME_SECONDS
                /\ after.topic = c.motion
                /\ after.motionContext # None
                /\ after.motionContext[1].detectedLanguage = r.json.detectedLanguage
                /\ Some(after.motionContext[1].specificCriteria)
                       = r.json.specificCriteria
                /\ after.motionContext[1].backgroundInfo = r.json.backgroundInfo
                /\ ~after.isAdjudicating
                /\ after.speakers = before.speakers]_vars

\* an analysis has succeeded with skip chosen
C13_Witness ==
    /\ last.op = "analyzeDone"
    /\ sessions[1].phase = "debate"
    /\ sessions[1].prepTimeLeft = 0
    /\ sessions[1].topic = MotionShort
    /\ sessions[1].motionContext # None
    /\ sessions[1].motionContext[1].detectedLanguage = "English"

\* C14: submitting a motion that is empty or all whitespace, or submitting while
\* not online, starts no motion analysis and leaves the session (phase 'setup',
\* motionContext null) and the store unchanged.
C14_BlankOrOfflineIsRejected ==
    [][(/\ handleAnalyzeAndStart
        /\ \/ \A j \in DOMAIN motionInput : motionInput[j] = Blank
           \/ ~isOnline)
          => /\ calls' = calls
             /\ started' = started
             /\ ~isAnalyzingMotion'
             /\ sessions' = sessions
             /\ Find(sessions', activeSessionId).phase = "setup"
             /\ Find(sessions', activeSessionId).motionContext = None]_vars

\* a whitespace-only motion has been submitted while online
C14_Witness ==
    /\ last.op = "analyzeRejected"
    /\ motionInput = MotionBlank
    /\ isOnline
    /\ calls = <<>>
    /\ sessions[1].phase = "setup"

\* C19: an evaluation response that is unparseable or lacks the score, the
\* transcription or the feedback is a failure: it does not mark the speaker
\* completed, and no score, transcription or feedback is stored that the
\* response did not carry.
C19_IncompleteEvaluationIsFailure ==
    [][\A k \in DOMAIN calls, r \in AudioResponses :
          (/\ processAudioDone(k, r, TRUE)
           /\ \/ ~r.parses
              \/ r.json.score = None
              \/ r.json.transcription = Undef
              \/ r.json.feedback = Undef)
          => LET id == calls[k].session.id
                 i == calls[k].spk
                 before == Find(sessions, id).speakers[i]
                 after == Find(sessions', id).speakers[i]
             IN /\ after.isCompleted => before.isCompleted
                /\ after.score = before.score
                /\ after.transcription = before.transcription
                /\ after.feedback = before.feedback]_vars

\* C20: for every stored speaker, score, transcription and feedback are all
\* present when isCompleted is true and all absent when it is false.
C20_ResultPresentIffCompleted ==
    \A n \in DOMAIN sessions :
        \A i \in DOMAIN sessions[n].speakers :
            LET sp == sessions[n].speakers[i]
            IN IF sp.isCompleted
               THEN sp.score # None /\ sp.transcription # Undef /\ sp.feedback # Undef
               ELSE sp.score = None /\ sp.transcription = Undef /\ sp.feedback = Undef

\* after two recordings one speaker is stored completed with its result and the
\* other one incomplete without any
C20_Witness ==
    /\ last.op = "processAudioDone"
    /\ started = MaxCalls
    /\ sessions[1].speakers[last.spk].isCompleted
    /\ sessions[1].speakers[last.spk].score # None
    /\ \E j \in Recorded :
          /\ j # last.spk
          /\ ~sessions[1].speakers[j].isCompleted
          /\ sessions[1].speakers[j].score = None
    /\ calls = <<>>

-----------------------------------------------------------------------------
(* Properties of handleUpdateSpeaker, under SpecUpdate *)

-----------------------------------------------------------------------------
(* Properties of the session list, under SpecStore *)

\* C16: a newly created session, the default one and each one made by
\* createNewSession, has the 8 speakers of the canonical roster, each with
\* isCompleted false, speechTimeLeft = SPEECH_TIME_SECONDS, isSpeechTimerRunning
\* false and no score, transcription or feedback, and has phase 'setup',
\* prepTimeLeft = PREP_TIME_SECONDS, motionContext null, isAdjudicating false,
\* finalRankings null and overallAdjudication null.
C16_NewSessionIsFresh ==
    (last.op = "init" \/ last.op = "createNewSession")
    => LET s == sessions[Len(sessions)]
       IN /\ s.id = activeSessionId
          /\ Len(s.speakers) = 8
          /\ \A i \in 1..8 :
                /\ s.speakers[i].role = SpeakerRoles[i]
                /\ s.speakers[i].team = SpeakerTeams[i]
                /\ ~s.speakers[i].isCompleted
                /\ s.speakers[i].speechTimeLeft = SPEECH_TIME_SECONDS
                /\ ~s.speakers[i].isSpeechTimerRunning
                /\ s.speakers[i].score = None
                /\ s.speakers[i].transcription = Undef
                /\ s.speakers[i].feedback = Undef
          /\ s.phase = "setup"
          /\ s.prepTimeLeft = PREP_TIME_SECONDS
          /\ s.motionContext = None
          /\ ~s.isAdjudicating
          /\ s.finalRankings = None
          /\ s.overallAdjudication = Null

\* a session has been created beside one whose debate is under way, with a
\* speech timer started
C16_Witness ==
    /\ last.op = "createNewSession"
    /\ Len(sessions) = 2
    /\ sessions[1].phase = "debate"
    /\ sessions[1].speakers[1].isSpeechTimerRunning
    /\ sessions[2].id = activeSessionId
    /\ sessions[2].phase = "setup"

\* C17: an operation on one session (motion submission, prep tick or skip,
\* speaker update, finish, collaborator completion) and a create or delete of
\* another session leave every other stored session as it was.
C17_SessionsAreIndependent ==
    [][/\ createNewSession(nextId)
          => \A n \in DOMAIN sessions :
                n \in DOMAIN sessions' /\ sessions'[n] = sessions[n]
       /\ \A id \in IdsOf(rendered) :
             deleteSession(id)
             => \A n \in DOMAIN sessions :
                   sessions[n].id # id
                   => \E m \in DOMAIN sessions' : sessions'[m] = sessions[n]
       /\ (\/ handleAnalyzeAndStart
           \/ \E sync \in BOOLEAN : prepTick(sync)
           \/ handleSkipPrep
           \/ \E i \in Timed : toggleSpeechTimer(i)
           \/ handleFinishDebate)
          => \A n \in DOMAIN sessions :
                sessions[n].id # activeSessionId => sessions'[n] = sessions[n]
       /\ \A k \in DOMAIN calls, sync \in BOOLEAN :
             (\/ \E r \in MotionResponses : analyzeDone(k, r, sync)
              \/ \E r \in RankingResponses : finishDone(k, r, sync))
             => \A n \in DOMAIN sessions :
                   sessions[n].id # calls[k].session.id
                   => sessions'[n] = sessions[n]]_vars

-----------------------------------------------------------------------------
(* Properties of two speech timers, under SpecTimers *)

\* C21: with the speech timers of two speakers of a session running at once, a
\* tick, toggle or reset of one speaker's timer leaves the other speaker's
\* speechTimeLeft and isSpeechTimerRunning as stored, under every interleaving of
\* the interval callbacks and the renders: no stored decrement is undone.
C21_TimersAreIndependent ==
    [][last'.op \in {"speechTick", "toggleSpeechTimer", "resetSpeechTimer"}
          => \A n \in DOMAIN sessions :
                \A j \in DOMAIN sessions[n].speakers :
                    (/\ j # last'.spk
                     /\ sessions[n].speakers[j].isSpeechTimerRunning
                     /\ sessions[n].speakers[last'.spk].isSpeechTimerRunning)
                    => /\ sessions'[n].speakers[j].speechTimeLeft
                              = sessions[n].speakers[j].speechTimeLeft
                       /\ sessions'[n].speakers[j].isSpeechTimerRunning
                              = sessions[n].speakers[j].isSpeechTimerRunning]_vars

-----------------------------------------------------------------------------
(* Properties of the dashboard across several calls, under Spec *)

\* C22: a speaker stored as completed with a score, transcription and feedback
\* stays completed with the same score, transcription and feedback in every later
\* state of the session, also after the evaluation of another speaker's recording
\* that was started before the completion, and after a ranking or a rollback.
C22_CompletionIsKept ==
    [][\A n \in DOMAIN sessions :
          \A i \in DOMAIN sessions[n].speakers :
              LET before == sessions[n].speakers[i]
                  after == sessions'[n].speakers[i]
              IN (before.isCompleted /\ before.score # None)
                 => /\ after.isCompleted
                    /\ after.score = before.score
                    /\ after.transcription = before.transcription
                    /\ after.feedback = before.feedback]_vars


\* C23: the speakers passed to generateFinalRanking and the speakers every
\* totalScore is computed from are one snapshot of 8 speakers, the session's
\* speakers when finish was invoked; a speaker update stored while the ranking
\* call is in flight changes neither the request nor the totals.
C23_RankingUsesOneSnapshot ==
    [][/\ handleFinishDebate
          => LET c == calls'[Len(calls')]
             IN /\ c.kind = "finish"
                /\ RankingRequest(c.session).speakers
                       = Find(sessions, activeSessionId).speakers
                /\ Len(RankingRequest(c.session).speakers) = 8
       /\ \A k \in DOMAIN calls :
             (calls[k].kind = "finish" /\ k \in DOMAIN calls'
              /\ calls'[k].kind = "finish" /\ Len(calls') = Len(calls))
             => RankingRequest(calls'[k].session) = RankingRequest(calls[k].session)
       /\ \A k \in DOMAIN calls, r \in RankingResponses :
             (finishDone(k, r, TRUE) /\ ~RankingThrows(generateFinalRanking(apiKey, r)))
             => LET list == Find(sessions', calls[k].session.id).finalRankings[1]
                    request == RankingRequest(calls[k].session)
                IN \A i \in DOMAIN list :
                      list[i].totalScore
                          = SumScores(request.speakers, list[i].team, 1)]_vars

\* a ranking call is in flight and a speaker's evaluation has been stored since
\* finish was invoked: the stored speakers differ from the call's snapshot
C23_Witness ==
    \E k \in DOMAIN calls :
        /\ calls[k].kind = "finish"
        /\ last.op = "processAudioDone"
        /\ Find(sessions, calls[k].session.id).speakers[last.spk].isCompleted
        /\ ~RankingRequest(calls[k].session).speakers[last.spk].isCompleted
        /\ Find(sessions, calls[k].session.id).speakers
               # RankingRequest(calls[k].session).speakers


-----------------------------------------------------------------------------
(* Properties of the ranking calls of a debate, under SpecDebate *)

\* C24: once a ranking failure has rolled a session back to 'debate' with
\* finalRankings null, the success of a ranking call that was in flight at that
\* rollback is dropped: it stores neither phase 'results' nor finalRankings nor
\* an overallAdjudication.
C24_LateSuccessIsDropped ==
    [][\A k \in DOMAIN calls, r \in RankingResponses :
          LET id == calls[k].session.id
          IN (/\ last.op = "finishFailed"
              /\ Find(sessions, id).phase = "debate"
              /\ Find(sessions, id).finalRankings = None
              /\ finishDone(k, r, TRUE)
              /\ ~RankingThrows(generateFinalRanking(apiKey, r)))
             => /\ Find(sessions', id).phase = "debate"
                /\ Find(sessions', id).finalRankings = None
                /\ Find(sessions', id).overallAdjudication = Null]_vars


\* an evaluation of the speaker at position i is in flight
EvaluationInFlight(i) ==
    \E k \in DOMAIN calls :
        calls[k].kind = "record" /\ calls[k].stage = "evaluating" /\ calls[k].spk = i

\* C29: while an evaluation call of one speaker is in flight and does not
\* complete, that speaker stays isCompleted = false, every other speaker can still
\* be recorded, evaluated and stored completed, and the finish action is enabled
\* and takes the session from 'debate' to 'results', with fewer than 8 speakers
\* completed.
C29_StuckEvaluationBlocksNothing ==
    [][\A i \in Recorded :
          (EvaluationInFlight(i) /\ EvaluationInFlight(i)')
          => /\ ~sessions[1].speakers[i].isCompleted
                    => ~sessions'[1].speakers[i].isCompleted
             /\ \A j \in Recorded \ {i} :
                    /\ (/\ ActiveRendered.phase = "debate"
                         /\ ~ActiveRendered.speakers[j].isCompleted
                         /\ ~isRecording[j] /\ ~isAnalyzing[j]
                         /\ started < MaxCalls)
                        => ENABLED startRecording(j)
                    /\ (/\ ActiveRendered.phase = "debate"
                         /\ ~ActiveRendered.speakers[j].isCompleted
                         /\ isRecording[j] /\ ~isAnalyzing[j])
                        => ENABLED stopRecording(j)
                    /\ \A k \in DOMAIN calls, r \in AudioResponses :
                           (/\ calls[k].spk = j
                            /\ processAudioDone(k, r, TRUE)
                            /\ ~ApiFailed(r))
                           => /\ sessions'[1].speakers[j].isCompleted
                              /\ sessions'[1].speakers[j].score # None
             /\ (ActiveRendered.phase = "debate" /\ started < MaxCalls)
                    => ENABLED handleFinishDebate
             /\ handleFinishDebate
                    => /\ sessions[1].phase = "debate"
                       /\ sessions'[1].phase = "results"
                       /\ CompletedCount(sessions'[1]) < 8]_vars

\* C25: for every speaker at most one speech-evaluation call is in flight at any
\* time: a recording of a speaker whose evaluation has not completed, or whose
\* stopped recorder has not yet run its stop handler, starts no second evaluation.
C25_OneEvaluationPerSpeaker ==
    \A i \in 1..8 :
        Cardinality({k \in DOMAIN calls :
                        /\ calls[k].kind = "record"
                        /\ calls[k].stage = "evaluating"
                        /\ calls[k].spk = i}) <= 1


-----------------------------------------------------------------------------
(* Further properties of the session list, under SpecStore *)

\* C26: in every reachable state of every session, isAdjudicating true implies
\* phase 'results' and a ranking call of that session in flight: it is false in
\* 'setup', 'prep' and 'debate' and once the ranking call has completed.
C26_AdjudicatingOnlyDuringRanking ==
    \A n \in DOMAIN sessions :
        sessions[n].isAdjudicating
        => /\ sessions[n].phase = "results"
           /\ \E k \in DOMAIN calls :
                 /\ calls[k].kind = "finish"
                 /\ calls[k].session.id = sessions[n].id


-----------------------------------------------------------------------------
(* Properties of the phases and the timers of a dashboard, under Spec *)

\* C27: every change of a session's phase is setup->prep, setup->debate,
\* prep->debate, debate->results, or results->debate by a ranking failure: no
\* timer tick, speaker update or collaborator completion takes a session back to
\* 'setup' or 'prep', or from 'results' to 'debate' without a ranking failure.
C27_PhaseChangesAreForward ==
    [][\A n \in DOMAIN sessions :
          LET from == sessions[n].phase
              to == sessions'[n].phase
          IN from # to
             => \/ <<from, to>> \in {<<"setup", "prep">>, <<"setup", "debate">>,
                                     <<"prep", "debate">>, <<"debate", "results">>}
                \/ /\ <<from, to>> = <<"results", "debate">>
                   /\ last'.op = "finishFailed"]_vars


\* C28: a stored timer value changes by a decrement of exactly 1, except by a
\* reset and by the assignment on entering a phase: a speaker's speechTimeLeft
\* never increases except through resetSpeechTimer, and a session's prepTimeLeft
\* never increases after the session has entered 'prep'.
C28_TimersOnlyCountDown ==
    [][\A n \in DOMAIN sessions :
          /\ \A i \in DOMAIN sessions[n].speakers :
                LET before == sessions[n].speakers[i].speechTimeLeft
                    after == sessions'[n].speakers[i].speechTimeLeft
                IN (after # before /\ last'.op # "resetSpeechTimer")
                   => after = before - 1
          /\ LET before == sessions[n].prepTimeLeft
                 after == sessions'[n].prepTimeLeft
             IN (after # before /\ sessions[n].phase = sessions'[n].phase)
                => after = before - 1
          /\ sessions[n].phase # "setup"
                => sessions'[n].prepTimeLeft <= sessions[n].prepTimeLeft]_vars


-----------------------------------------------------------------------------
(* Properties of the session list on its own, under SpecList *)

\* C30: after any sequence of create, select and delete operations the store is
\* non-empty, all stored session ids are distinct and activeSessionId is the id
\* of exactly one stored session; the only remaining session is not deleted, and
\* deleting the active session makes another stored session the active one.
C30_ExactlyOneActiveSession ==
    [][/\ sessions' # <<>>
       /\ \A m, n \in DOMAIN sessions' : m # n => sessions'[m].id # sessions'[n].id
       /\ Cardinality({n \in DOMAIN sessions' : sessions'[n].id = activeSessionId'}) = 1
       /\ \A id \in IdsOf(rendered) :
             deleteSession(id)
             => /\ Len(sessions) > 1
                /\ Len(sessions') = Len(sessions) - 1
                /\ activeSessionId = id
                      => /\ activeSessionId' # id
                         /\ activeSessionId' \in IdsOf(sessions')]_vars


-----------------------------------------------------------------------------
(* Properties of the timers under fair ticking, under SpecTicking *)

\* C31: a session in phase 'prep' with prepTimeLeft > 0 keeps counting down
\* whichever session is the active one, so that its prepTimeLeft eventually
\* reaches 0, and a speaker whose speech timer is running with time left keeps
\* decrementing likewise until the time is 0 or the timer is paused.
C31_TimersRunInEverySession ==
    \A n \in 1..MaxSessions :
        /\ [](  (/\ n \in DOMAIN sessions
                 /\ sessions[n].phase = "prep"
                 /\ sessions[n].prepTimeLeft > 0)
             => <>(n \in DOMAIN sessions /\ sessions[n].prepTimeLeft = 0))
        /\ \A i \in Timed :
              [](  (/\ n \in DOMAIN sessions
                    /\ sessions[n].phase = "debate"
                    /\ sessions[n].speakers[i].isSpeechTimerRunning
                    /\ sessions[n].speakers[i].speechTimeLeft > 0)
                => <>(/\ n \in DOMAIN sessions
                      /\ \/ sessions[n].speakers[i].speechTimeLeft = 0
                         \/ ~sessions[n].speakers[i].isSpeechTimerRunning))


-----------------------------------------------------------------------------
(* Properties of the motion context, under SpecTicking *)

\* the motion context of a session is null exactly in phase 'setup', and its
\* topic is non-empty in every other phase
ContextMatchesPhase(s) ==
    /\ s.motionContext = None <=> s.phase = "setup"
    /\ s.phase # "setup" => s.topic # <<>>

\* C32: a session's motionContext is null exactly while its phase is 'setup',
\* its topic is non-empty whenever its phase is not 'setup', and a
\* motionContext that is set is never changed or cleared by any later event.
C32_MotionContextSetOnce ==
    [][\A n \in DOMAIN sessions' :
          LET after == sessions'[n]
          IN /\ ContextMatchesPhase(after)
             /\ \A m \in DOMAIN sessions :
                   (/\ sessions[m].id = after.id
                    /\ sessions[m].motionContext # None)
                   => after.motionContext = sessions[m].motionContext]_vars


-----------------------------------------------------------------------------
(* Properties of deleted sessions, under SpecDeleted *)

\* the ids of the sessions created so far
Created == {SessionId(n) : n \in 1..(nextId - 1)}

\* the call at position k of calls completes, with success or failure
Completes(k) ==
    \/ \E r \in MotionResponses : analyzeDone(k, r, TRUE)
    \/ \E r \in AudioResponses : processAudioDone(k, r, TRUE)
    \/ \E r \in RankingResponses : finishDone(k, r, TRUE)

\* C33: a deleted session never reappears in the store; the completion of a
\* motion-analysis, speech-evaluation or ranking call that belongs to a session
\* deleted in the meantime leaves the store as it is, and a timer tick is a
\* tick of the active session, which is stored, and changes no other session.
C33_DeletedSessionStaysDeleted ==
    [][/\ \A id \in Created \ IdsOf(sessions) : id \notin IdsOf(sessions')
       /\ \A k \in DOMAIN calls :
             (calls[k].session.id \notin IdsOf(sessions) /\ Completes(k))
             => sessions' = sessions
       /\ (prepTick(TRUE) \/ \E i \in Timed : speechTick(i, TRUE))
          => /\ activeSessionId \in IdsOf(sessions)
             /\ DOMAIN sessions' = DOMAIN sessions
             /\ \A n \in DOMAIN sessions :
                   sessions[n].id # activeSessionId => sessions'[n] = sessions[n]]_vars

\* a motion analysis has completed with success and the one stored session,
\* the second created, is still in phase 'setup': the call was the deleted
\* session's
C33_Witness ==
    /\ last.op = "analyzeDone"
    /\ IdsOf(sessions) = {SessionId(2)}
    /\ \A n \in DOMAIN sessions : sessions[n].phase = "setup"

====
